---- MODULE Spec2Model ----
(***************************************************************************)
(* Transfer buffer storage of libuavcan (uavcan/transport/                 *)
(* transfer_buffer.hpp): StaticTransferBuffer, the static and dynamic      *)
(* manager entries, and TransferBufferManager with its create / access /   *)
(* remove / optimizeStorage / destructor.                                  *)
(*                                                                         *)
(* Offsets are 0-based as in the source; a byte array is a sequence, so    *)
(* the byte at offset o is data[o + 1].                                    *)
(***************************************************************************)
EXTENDS Integers, Sequences, FiniteSets, TLC

VARIABLES
    debug,            \* UAVCAN_DEBUG: the build the program was compiled as
    static_buffers,   \* TransferBufferManager::static_buffers_
    dynamic_buffers,  \* TransferBufferManager::dynamic_buffers_ (head first)
    pool_free,        \* the allocator: its free blocks and its count of bad frees
    alive,            \* the manager is constructed and not yet destroyed
    ref,              \* the ITransferBuffer* the caller got last and still holds
    pat,              \* per key: what the caller wrote since create(key)
    made,             \* the keys created with success and not removed since
    last,             \* the last call made and what it returned
    track,            \* what this run keeps: "ref", "pat", "made", "last" (the
                      \* calls that change the manager), "args" (their
                      \* arguments), "acc", "obs" (the calls that only look),
                      \* "since", "twin"
    buf,              \* a standalone StaticTransferBuffer<Size>
    oob,              \* how many bytes its last write stored past the end of data_
    since,            \* the (offset, data) of the writes made to it since its reset
    twin              \* the same buffer in the program compiled the other way
                      \* (UAVCAN_DEBUG flipped), given the same calls

mgrVars == <<static_buffers, dynamic_buffers, pool_free, alive, ref, pat, made>>
bufVars == <<buf, oob, since, twin>>
vars == <<debug, track, last, mgrVars, bufVars>>

----------------------------------------------------------------------------
(* Bounds of the model and the values the program's constants take in it. *)

MaxBufSize == 2
NumStaticBufs == 1
BlockSize == 1
PoolBlocks == 3
NumKeys == 3
MaxByte == 1
UBits == 5
GapSize == 20
GapLen == 5
DynPool == 4

UMod == 2 ^ UBits
EmptyKey == 0
NULL == 0
Uninit == -1

Keys == 1 .. NumKeys
Blocks == 1 .. PoolBlocks
Bytes == 1 .. MaxByte

Min(a, b) == IF a < b THEN a ELSE b
Max(a, b) == IF a > b THEN a ELSE b
Range(s) == {s[i] : i \in 1 .. Len(s)}
Zeros(n) == [i \in 1 .. n |-> 0]

\* unsigned + unsigned: the sum modulo 2^UBits
USum(a, b) == (a + b) % UMod

\* the byte strings of length n a caller passes as data: one per first byte,
\* the following bytes running through Bytes in order
Patterns(n) == {[i \in 1 .. n |-> ((v + i - 2) % MaxByte) + 1] : v \in Bytes}

----------------------------------------------------------------------------
(* StaticTransferBuffer<Size>: a record [data, max_write_pos], Size being  *)
(* Len(data).                                                              *)

StaticTransferBuffer(Size) == [data |-> Zeros(Size), max_write_pos |-> 0]

\* read(offset, data, len) with a non-null data: the bytes copied out (the
\* return value is their number). A byte fetched from past data_ is Uninit.
StaticRead(b, offset, len) ==
    IF offset >= b.max_write_pos THEN << >>
    ELSE LET n == IF USum(offset, len) > b.max_write_pos
                  THEN b.max_write_pos - offset ELSE len
         IN  [i \in 1 .. n |-> IF offset + i <= Len(b.data)
                               THEN b.data[offset + i] ELSE Uninit]

\* write with max_write_pos_ = offset + len in place of the std::max
StaticWrite_LastWins(b, offset, data, len) ==
    LET Size == Len(b.data) IN
    IF offset >= Size THEN [buf |-> b, ret |-> 0, over |-> 0]
    ELSE LET n == IF USum(offset, len) > Size THEN Size - offset ELSE len
             nd == [i \in 1 .. Size |->
                      IF i > offset /\ i <= offset + n
                      THEN data[i - offset] ELSE b.data[i]]
         IN  [buf  |-> [data |-> nd, max_write_pos |-> USum(offset, n)],
              ret  |-> n,
              over |-> Max(0, offset + n - Size)]

\* write(offset, data, len) with a non-null data: the buffer after the call,
\* the value returned, and the number of bytes std::copy stored past the end
\* of data_ (the in-bounds part of the copy is in buf).
StaticWrite(b, offset, data, len) ==
    LET Size == Len(b.data) IN
    IF offset >= Size THEN [buf |-> b, ret |-> 0, over |-> 0]
    ELSE LET n == IF USum(offset, len) > Size THEN Size - offset ELSE len
             nd == [i \in 1 .. Size |->
                      IF i > offset /\ i <= offset + n
                      THEN data[i - offset] ELSE b.data[i]]
         IN  [buf  |-> [data |-> nd,
                        max_write_pos |-> Max(USum(offset, n), b.max_write_pos)],
              ret  |-> n,
              over |-> Max(0, offset + n - Size)]

\* reset() that leaves max_write_pos_ as it is
StaticReset_KeepsMark(b) ==
    [data |-> IF debug THEN Zeros(Len(b.data)) ELSE b.data,
     max_write_pos |-> b.max_write_pos]

\* reset() as compiled with UAVCAN_DEBUG = dbg
ResetAs(b, dbg) ==
    [data |-> IF dbg THEN Zeros(Len(b.data)) ELSE b.data, max_write_pos |-> 0]

StaticReset(b) == ResetAs(b, debug)

setMaxWritePos(b, value) == [b EXCEPT !.max_write_pos = value]

----------------------------------------------------------------------------
(* The pool allocator (uavcan/dynamic_memory.hpp): a fixed number of       *)
(* blocks. A pool is [free, bad]: the set of blocks it holds, and how many *)
(* times it was handed back a block it already held. allocate() gives the  *)
(* lowest free block or fails.                                             *)

PoolInit == [free |-> Blocks, bad |-> 0]

allocate(pool) ==
    IF pool.free = {} THEN [blk |-> NULL, pool |-> pool]
    ELSE LET b == CHOOSE x \in pool.free : \A y \in pool.free : x <= y IN
         [blk |-> b, pool |-> [pool EXCEPT !.free = @ \ {b}]]

deallocate(pool, blk) ==
    [free |-> pool.free \cup {blk},
     bad  |-> IF blk \in pool.free THEN Min(pool.bad + 1, 1) ELSE pool.bad]

RECURSIVE deallocateAll(_, _)
deallocateAll(pool, blks) ==
    IF blks = << >> THEN pool
    ELSE deallocateAll(deallocate(pool, Head(blks)), Tail(blks))

----------------------------------------------------------------------------
(* DynamicTransferBufferManagerEntry: [obj, key, blocks, max_write_pos,    *)
(* max_size]; obj is the pool block holding the object itself, blocks the  *)
(* chain, lowest offset first, each block [id, data] with Block::Size      *)
(* bytes of data, Uninit until written.                                    *)

Block(id) == [id |-> id, data |-> [i \in 1 .. BlockSize |-> Uninit]]

BlockIds(e) == [j \in 1 .. Len(e.blocks) |-> e.blocks[j].id]

\* the byte at offset a of the chain (a < Len(blocks) * BlockSize)
ChainByte(e, a) == e.blocks[(a \div BlockSize) + 1].data[(a % BlockSize) + 1]

Covered(e) == Len(e.blocks) * BlockSize

\* instantiate(allocator, max_size): the object is itself a pool block
DynInstantiate(free, max_size) ==
    LET a == allocate(free) IN
    [free  |-> a.pool,
     entry |-> [obj |-> a.blk, key |-> EmptyKey, blocks |-> << >>,
                max_write_pos |-> 0, max_size |-> max_size]]

\* resetImpl(): every block of the chain goes back to the pool
DynResetImpl(e, free) ==
    [free  |-> deallocateAll(free, BlockIds(e)),
     entry |-> [e EXCEPT !.blocks = << >>, !.max_write_pos = 0]]

\* reset(key) of the base class: key_ = key; resetImpl()
DynReset(e, free, key) ==
    LET r == DynResetImpl(e, free) IN
    [free |-> r.free, entry |-> [r.entry EXCEPT !.key = key]]

\* destroy(obj, allocator): the destructor resets, then the object is freed
DynDestroy(e, free) == deallocate(DynResetImpl(e, free).free, e.obj)

\* Block::instantiate, n times or until the pool fails: the blocks got, in
\* the order they were allocated
RECURSIVE allocateN(_, _)
allocateN(pool, n) ==
    IF n <= 0 THEN [blks |-> << >>, pool |-> pool]
    ELSE LET a == allocate(pool) IN
         IF a.blk = NULL THEN [blks |-> << >>, pool |-> pool]
         ELSE LET rest == allocateN(a.pool, n - 1) IN
              [blks |-> <<a.blk>> \o rest.blks, pool |-> rest.pool]

\* read(offset, data, len): the bytes copied out, clamped to max_write_pos
\* and to what the chain holds
DynRead(e, offset, len) ==
    IF offset >= e.max_write_pos THEN << >>
    ELSE LET n == IF USum(offset, len) > e.max_write_pos
                  THEN e.max_write_pos - offset ELSE len
             m == Max(0, Min(n, Covered(e) - offset))
         IN  [i \in 1 .. m |-> ChainByte(e, offset + i - 1)]

\* write that takes blocks for the whole of max_size at once
DynWrite_Eager(e, free, offset, data, len) ==
    IF offset >= e.max_size THEN [entry |-> e, free |-> free, ret |-> 0]
    ELSE LET n == IF USum(offset, len) > e.max_size
                  THEN e.max_size - offset ELSE len
             have == Len(e.blocks)
             need == Max(have, (e.max_size + BlockSize - 1) \div BlockSize)
             got == allocateN(free, need - have)
             chain == e.blocks \o [j \in 1 .. Len(got.blks) |-> Block(got.blks[j])]
             written == Max(0, Min(offset + n, Len(chain) * BlockSize) - offset)
             Put(j, i) == ((j - 1) * BlockSize) + (i - 1)
             stored == [j \in 1 .. Len(chain) |->
                          [chain[j] EXCEPT !.data =
                              [i \in 1 .. BlockSize |->
                                  IF Put(j, i) >= offset /\ Put(j, i) < offset + written
                                  THEN data[Put(j, i) - offset + 1]
                                  ELSE chain[j].data[i]]]]
         IN  [entry |-> [e EXCEPT !.blocks = stored,
                                  !.max_write_pos =
                                      Max(USum(offset, written), e.max_write_pos)],
              free  |-> got.pool,
              ret   |-> written]

\* write(offset, data, len): clamp to max_size, overwrite what the chain
\* covers, append blocks from the pool for the rest; when the pool runs out
\* the write stops with what it could store.
DynWrite(e, free, offset, data, len) ==
    IF offset >= e.max_size THEN [entry |-> e, free |-> free, ret |-> 0]
    ELSE LET n == IF USum(offset, len) > e.max_size
                  THEN e.max_size - offset ELSE len
             have == Len(e.blocks)
             need == IF n = 0 THEN have
                     ELSE Max(have, (offset + n + BlockSize - 1) \div BlockSize)
             got == allocateN(free, need - have)
             chain == e.blocks \o [j \in 1 .. Len(got.blks) |-> Block(got.blks[j])]
             written == Max(0, Min(offset + n, Len(chain) * BlockSize) - offset)
             Put(j, i) == ((j - 1) * BlockSize) + (i - 1)
             stored == [j \in 1 .. Len(chain) |->
                          [chain[j] EXCEPT !.data =
                              [i \in 1 .. BlockSize |->
                                  IF Put(j, i) >= offset /\ Put(j, i) < offset + written
                                  THEN data[Put(j, i) - offset + 1]
                                  ELSE chain[j].data[i]]]]
         IN  [entry |-> [e EXCEPT !.blocks = stored,
                                  !.max_write_pos =
                                      Max(USum(offset, written), e.max_write_pos)],
              free  |-> got.pool,
              ret   |-> written]

----------------------------------------------------------------------------
(* StaticTransferBufferManagerEntry<Size>: [key, buf].                     *)

StaticEntry(Size) == [key |-> EmptyKey, buf |-> StaticTransferBuffer(Size)]

\* TransferBufferManagerEntry::reset(key): key_ = key; resetImpl()
StaticEntryReset(se, key) == [key |-> key, buf |-> StaticReset(se.buf)]

\* migrateFrom without its setMaxWritePos(res)
migrateFrom_NoMark(se, tbme) ==
    IF tbme.key = EmptyKey THEN [ok |-> FALSE, entry |-> se]
    ELSE LET Size == Len(se.buf.data)
             s1 == StaticEntryReset(se, tbme.key)
             got == DynRead(tbme, 0, Size)
             raw == [i \in 1 .. Size |->
                       IF i <= Len(got) THEN got[i] ELSE s1.buf.data[i]]
         IN  [ok |-> TRUE, entry |-> [s1 EXCEPT !.buf.data = raw]]

\* migrateFrom that takes a source filling the whole of data_ as too large
migrateFrom_FullIsTooLarge(se, tbme) ==
    IF tbme.key = EmptyKey THEN [ok |-> FALSE, entry |-> se]
    ELSE LET Size == Len(se.buf.data)
             s1 == StaticEntryReset(se, tbme.key)
             got == DynRead(tbme, 0, Size)
             res == Len(got)
             raw == [i \in 1 .. Size |->
                       IF i <= res THEN got[i] ELSE s1.buf.data[i]]
             s2 == [s1 EXCEPT !.buf =
                       setMaxWritePos([s1.buf EXCEPT !.data = raw], res)]
         IN  IF res < Size THEN [ok |-> TRUE, entry |-> s2]
             ELSE [ok |-> FALSE, entry |-> StaticEntryReset(s2, EmptyKey)]

\* migrateFrom(tbme) for a dynamic tbme: whether it succeeded and the static
\* entry after the call. read(0, getRawPtr(), Size) stores straight into data_.
migrateFrom(se, tbme) ==
    IF tbme.key = EmptyKey THEN [ok |-> FALSE, entry |-> se]
    ELSE LET Size == Len(se.buf.data)
             s1 == StaticEntryReset(se, tbme.key)
             got == DynRead(tbme, 0, Size)
             res == Len(got)
             raw == [i \in 1 .. Size |->
                       IF i <= res THEN got[i] ELSE s1.buf.data[i]]
             s2 == [s1 EXCEPT !.buf =
                       setMaxWritePos([s1.buf EXCEPT !.data = raw], res)]
         IN  IF res < Size THEN [ok |-> TRUE, entry |-> s2]
             ELSE IF Len(DynRead(tbme, Size, 1)) > 0
                  THEN [ok |-> FALSE, entry |-> StaticEntryReset(s2, EmptyKey)]
                  ELSE [ok |-> TRUE, entry |-> s2]

----------------------------------------------------------------------------
(* TransferBufferManager<MaxBufSize, NumStaticBufs>. The operations work   *)
(* on M = [sb, db, free, log]: static_buffers_, dynamic_buffers_, the      *)
(* allocator's free list, and the log of the call: the keys it migrated.   *)
(* A pointer to an entry is [tier, loc]: the static slot's index, or the   *)
(* pool block of a dynamic entry object.                                   *)

NullPtr == [tier |-> "null", loc |-> NULL]
StaticPtr(i) == [tier |-> "static", loc |-> i]
DynPtr(e) == [tier |-> "dynamic", loc |-> e.obj]

\* LinkedListRoot::insert(node): the node becomes the head
ListInsert(db, e) == <<e>> \o db

\* LinkedListRoot::remove(node)
ListRemove(db, j) == SubSeq(db, 1, j - 1) \o SubSeq(db, j + 1, Len(db))

\* the index of the first static slot whose key is key, or NULL
findFirstStatic(sb, key) ==
    LET hits == {i \in 1 .. Len(sb) : sb[i].key = key} IN
    IF hits = {} THEN NULL
    ELSE CHOOSE i \in hits : \A h \in hits : i <= h

\* the position of the first dynamic entry whose key is key, or NULL
findFirstDynamic(db, key) ==
    LET hits == {j \in 1 .. Len(db) : db[j].key = key} IN
    IF hits = {} THEN NULL
    ELSE CHOOSE j \in hits : \A h \in hits : j <= h

RECURSIVE optimizeStorage(_)
\* optimizeStorage with the migrated entry unlinked but never destroyed
optimizeStorage_Leak(M) ==
    IF M.db = << >> THEN M
    ELSE LET sb == findFirstStatic(M.sb, EmptyKey) IN
         IF sb = NULL THEN M
         ELSE LET r == migrateFrom(M.sb[sb], Head(M.db)) IN
              IF r.ok
              THEN optimizeStorage(
                       [sb   |-> [M.sb EXCEPT ![sb] = r.entry],
                        db   |-> ListRemove(M.db, 1),
                        free |-> M.free,
                        log  |-> Append(M.log, Head(M.db).key)])
              ELSE [M EXCEPT !.sb[sb] = StaticEntryReset(r.entry, EmptyKey)]

optimizeStorage(M) ==
    IF M.db = << >> THEN M
    ELSE LET sb == findFirstStatic(M.sb, EmptyKey) IN
         IF sb = NULL THEN M
         ELSE LET dyn == Head(M.db)
                  r == migrateFrom(M.sb[sb], dyn)
              IN  IF r.ok
                  THEN optimizeStorage(
                           [sb   |-> [M.sb EXCEPT ![sb] = r.entry],
                            db   |-> ListRemove(M.db, 1),
                            free |-> DynDestroy(dyn, M.free),
                            log  |-> Append(M.log, dyn.key)])
                  ELSE [M EXCEPT !.sb[sb] = StaticEntryReset(r.entry, EmptyKey)]

\* remove with the dynamic entry unlinked but never destroyed
remove_Leak(M, key) ==
    LET tbme == findFirstStatic(M.sb, key) IN
    IF tbme # NULL
    THEN optimizeStorage(
             [M EXCEPT !.sb[tbme] = StaticEntryReset(M.sb[tbme], EmptyKey)])
    ELSE LET dyn == findFirstDynamic(M.db, key) IN
         IF dyn # NULL THEN [M EXCEPT !.db = ListRemove(M.db, dyn)] ELSE M

\* remove with the head of the dynamic list unlinked and destroyed, whichever
\* entry holds the key
remove_WrongEntry(M, key) ==
    LET tbme == findFirstStatic(M.sb, key) IN
    IF tbme # NULL
    THEN optimizeStorage(
             [M EXCEPT !.sb[tbme] = StaticEntryReset(M.sb[tbme], EmptyKey)])
    ELSE LET dyn == findFirstDynamic(M.db, key) IN
         IF dyn # NULL
         THEN [M EXCEPT !.db = ListRemove(M.db, 1),
                        !.free = DynDestroy(M.db[1], M.free)]
         ELSE M

\* remove without the optimizeStorage() after a static entry is reset
remove_NoOptimize(M, key) ==
    LET tbme == findFirstStatic(M.sb, key) IN
    IF tbme # NULL
    THEN [M EXCEPT !.sb[tbme] = StaticEntryReset(M.sb[tbme], EmptyKey)]
    ELSE LET dyn == findFirstDynamic(M.db, key) IN
         IF dyn # NULL
         THEN [M EXCEPT !.db = ListRemove(M.db, dyn),
                        !.free = DynDestroy(M.db[dyn], M.free)]
         ELSE M

\* remove with everything behind the dynamic entry unlinked along with it
remove_DropsTail(M, key) ==
    LET tbme == findFirstStatic(M.sb, key) IN
    IF tbme # NULL
    THEN optimizeStorage(
             [M EXCEPT !.sb[tbme] = StaticEntryReset(M.sb[tbme], EmptyKey)])
    ELSE LET dyn == findFirstDynamic(M.db, key) IN
         IF dyn # NULL
         THEN [M EXCEPT !.db = SubSeq(M.db, 1, dyn - 1),
                        !.free = DynDestroy(M.db[dyn], M.free)]
         ELSE M

\* remove(key)
remove(M, key) ==
    LET tbme == findFirstStatic(M.sb, key) IN
    IF tbme # NULL
    THEN optimizeStorage(
             [M EXCEPT !.sb[tbme] = StaticEntryReset(M.sb[tbme], EmptyKey)])
    ELSE LET dyn == findFirstDynamic(M.db, key) IN
         IF dyn # NULL
         THEN [M EXCEPT !.db = ListRemove(M.db, dyn),
                        !.free = DynDestroy(M.db[dyn], M.free)]
         ELSE M

\* the rest of create with the pool tried first and the static slots second
Place_DynamicFirst(M1, key) ==
    LET d == DynInstantiate(M1.free, MaxBufSize)
        tbme == findFirstStatic(M1.sb, EmptyKey)
    IN  IF d.entry.obj # NULL
        THEN LET r == DynReset(d.entry, d.free, key) IN
             [M   |-> [M1 EXCEPT !.db = ListInsert(M1.db, r.entry),
                                 !.free = r.free],
              res |-> DynPtr(r.entry)]
        ELSE IF tbme = NULL THEN [M |-> M1, res |-> NullPtr]
        ELSE [M   |-> [M1 EXCEPT !.sb[tbme] = StaticEntryReset(M1.sb[tbme], key)],
              res |-> StaticPtr(tbme)]

\* The rest of create(key), after its remove(key) has left M1
Place(M1, key) ==
    LET tbme == findFirstStatic(M1.sb, EmptyKey) IN
    IF tbme = NULL
    THEN LET d == DynInstantiate(M1.free, MaxBufSize) IN
         IF d.entry.obj = NULL
         THEN [M |-> M1, res |-> NullPtr]
         ELSE LET r == DynReset(d.entry, d.free, key) IN
              [M   |-> [M1 EXCEPT !.db = ListInsert(M1.db, r.entry),
                                  !.free = r.free],
               res |-> DynPtr(r.entry)]
    ELSE [M   |-> [M1 EXCEPT !.sb[tbme] = StaticEntryReset(M1.sb[tbme], key)],
          res |-> StaticPtr(tbme)]

\* create without its remove(key)
create_NoRemove(M, key) == Place(M, key)

\* create with the new entry linked before the allocation is checked
create_LinkBeforeCheck(M, key) ==
    LET M1 == remove(M, key)
        d == DynInstantiate(M1.free, MaxBufSize)
    IN  IF findFirstStatic(M1.sb, EmptyKey) = NULL /\ d.entry.obj = NULL
        THEN [M   |-> [M1 EXCEPT !.db = ListInsert(M1.db, [d.entry EXCEPT !.key = key])],
              res |-> NullPtr]
        ELSE Place(M1, key)

\* create that gives up when no slot and no block is free before its remove
create_CheckBeforeRemove(M, key) ==
    IF findFirstStatic(M.sb, EmptyKey) = NULL /\ M.free.free = {}
    THEN [M |-> remove(M, key), res |-> NullPtr]
    ELSE Place(remove(M, key), key)

\* create(key) for a non-empty key: the manager after the call and the
\* pointer returned
create(M, key) == Place(remove(M, key), key)

\* access that looks in the static slots only
access_StaticOnly(M, key) ==
    LET tbme == findFirstStatic(M.sb, key) IN
    IF tbme # NULL THEN StaticPtr(tbme) ELSE NullPtr

\* access(key) for a non-empty key
access(M, key) ==
    LET tbme == findFirstStatic(M.sb, key) IN
    IF tbme # NULL THEN StaticPtr(tbme)
    ELSE LET dyn == findFirstDynamic(M.db, key) IN
         IF dyn # NULL THEN DynPtr(M.db[dyn]) ELSE NullPtr

\* ~TransferBufferManager(): the walk of the dynamic list; log lists the
\* entry objects visited
RECURSIVE Destructor(_)
\* the destructor with next read from the entry after it was destroyed
Destructor_StopsAfterFirst(M) ==
    IF M.db = << >> THEN M
    ELSE [sb   |-> M.sb,
          db   |-> << >>,
          free |-> DynDestroy(Head(M.db), M.free),
          log  |-> Append(M.log, Head(M.db).obj)]

Destructor(M) ==
    IF M.db = << >> THEN M
    ELSE LET dyn == Head(M.db) IN
         Destructor([sb   |-> M.sb,
                     db   |-> ListRemove(M.db, 1),
                     free |-> DynDestroy(dyn, M.free),
                     log  |-> Append(M.log, dyn.obj)])

\* isEmpty that looks at the dynamic list only
isEmpty_DynamicOnly(M) == Len(M.db) = 0

getNumDynamicBuffers(M) == Len(M.db)
getNumStaticBuffers(M) == Cardinality({i \in 1 .. Len(M.sb) : M.sb[i].key # EmptyKey})
isEmpty(M) == getNumStaticBuffers(M) = 0 /\ getNumDynamicBuffers(M) = 0

----------------------------------------------------------------------------
(* Reading and writing through a pointer to an entry.                      *)

DynAt(M, loc) ==
    LET hits == {j \in 1 .. Len(M.db) : M.db[j].obj = loc} IN
    IF hits = {} THEN NULL ELSE CHOOSE j \in hits : TRUE

\* the pointer refers to an entry the manager holds
Live(M, ptr) ==
    \/ ptr.tier = "static" /\ ptr.loc \in 1 .. Len(M.sb)
    \/ ptr.tier = "dynamic" /\ DynAt(M, ptr.loc) # NULL

KeyAt(M, ptr) ==
    IF ptr.tier = "static" THEN M.sb[ptr.loc].key
    ELSE M.db[DynAt(M, ptr.loc)].key

\* ITransferBuffer::read through the pointer
ReadAt(M, ptr, offset, len) ==
    IF ptr.tier = "static" THEN StaticRead(M.sb[ptr.loc].buf, offset, len)
    ELSE DynRead(M.db[DynAt(M, ptr.loc)], offset, len)

\* ITransferBuffer::write through the pointer
WriteAt(M, ptr, offset, data, len) ==
    IF ptr.tier = "static"
    THEN LET w == StaticWrite(M.sb[ptr.loc].buf, offset, data, len) IN
         [M |-> [M EXCEPT !.sb[ptr.loc].buf = w.buf], ret |-> w.ret]
    ELSE LET j == DynAt(M, ptr.loc)
             w == DynWrite(M.db[j], M.free, offset, data, len)
         IN  [M |-> [M EXCEPT !.db[j] = w.entry, !.free = w.free], ret |-> w.ret]

\* everything readable through the pointer
Content(M, ptr) == ReadAt(M, ptr, 0, MaxBufSize)

----------------------------------------------------------------------------
(* The program: a caller of one manager (through TransferBufferAccessor:   *)
(* every read and write goes through access(key)).                         *)

Mgr == [sb |-> static_buffers, db |-> dynamic_buffers, free |-> pool_free,
        log |-> << >>]

NoRef == [key |-> EmptyKey, ptr |-> NullPtr, bytes |-> << >>]
Unknown == [known |-> FALSE, p |-> << >>]
Fresh == [known |-> TRUE, p |-> << >>]

Call(op, key, ret, out) == [op |-> op, key |-> key, ret |-> ret, out |-> out]

Install(M) ==
    /\ static_buffers' = M.sb
    /\ dynamic_buffers' = M.db
    /\ pool_free' = M.free

InitMgr(t) ==
    /\ track = t
    /\ debug \in BOOLEAN
    /\ static_buffers = [i \in 1 .. NumStaticBufs |-> StaticEntry(MaxBufSize)]
    /\ dynamic_buffers = << >>
    /\ pool_free = PoolInit
    /\ alive = TRUE
    /\ ref = NoRef
    /\ pat = [k \in Keys |-> Unknown]
    /\ made = {}
    /\ last = Call("init", EmptyKey, 0, << >>)
    /\ buf = StaticTransferBuffer(MaxBufSize)
    /\ oob = 0
    /\ since = {}
    /\ twin = StaticTransferBuffer(MaxBufSize)

Init == InitMgr({"last"})

\* the caller keeps the pointer / the pattern / the call only in the runs
\* that track them
Keep(name, var, val) == IF name \in track THEN val ELSE var

\* whether the caller keeps the pointer a call returns: either, in the runs
\* that track the pointer
Takes == IF "ref" \in track THEN BOOLEAN ELSE {TRUE}

Create(k, take) ==
    /\ alive
    /\ LET r == create(Mgr, k) IN
       /\ Install(r.M)
       /\ last' = Keep("last", last,
                       Call("create", k, IF r.res = NullPtr THEN 0 ELSE 1, r.M.log))
       /\ ref' = Keep("ref", ref,
                      IF r.res # NullPtr /\ take
                      THEN [key |-> k, ptr |-> r.res, bytes |-> << >>]
                      ELSE IF ref.key = k THEN NoRef ELSE ref)
       /\ pat' = Keep("pat", pat,
                      [pat EXCEPT ![k] = IF r.res # NullPtr THEN Fresh ELSE Unknown])
       /\ made' = Keep("made", made,
                       IF r.res # NullPtr THEN made \cup {k} ELSE made)
    /\ UNCHANGED <<debug, track, alive, bufVars>>

\* which entry remove(key) finds: 1 a static one, 2 a dynamic one, 0 none
Found(M, key) ==
    IF findFirstStatic(M.sb, key) # NULL THEN 1
    ELSE IF findFirstDynamic(M.db, key) # NULL THEN 2 ELSE 0

Remove(k) ==
    /\ alive
    /\ LET M == remove(Mgr, k) IN
       /\ Install(M)
       /\ last' = Keep("last", last, Call("remove", k, Found(Mgr, k), M.log))
    /\ ref' = Keep("ref", ref, IF ref.key = k THEN NoRef ELSE ref)
    /\ pat' = Keep("pat", pat, [pat EXCEPT ![k] = Unknown])
    /\ made' = Keep("made", made, made \ {k})
    /\ UNCHANGED <<debug, track, alive, bufVars>>

Access(k, take) ==
    /\ alive
    /\ LET res == access(Mgr, k) IN
       /\ last' = IF track \cap {"acc", "obs"} # {}
                  THEN Call("access", k, IF res = NullPtr THEN 0 ELSE 1, << >>)
                  ELSE last
       /\ ref' = Keep("ref", ref,
                      IF res # NullPtr /\ take
                      THEN [key |-> k, ptr |-> res, bytes |-> Content(Mgr, res)]
                      ELSE ref)
    /\ UNCHANGED <<debug, track, static_buffers, dynamic_buffers, pool_free,
                   alive, pat, made, bufVars>>

Write(k, offset, data) ==
    /\ alive
    /\ access(Mgr, k) # NullPtr
    /\ LET ptr == access(Mgr, k)
           w == WriteAt(Mgr, ptr, offset, data, Len(data))
       IN  /\ Install(w.M)
           /\ last' = Keep("last", last,
                           Call("write", k, w.ret,
                                Keep("args", << >>, <<offset, Len(data)>>)))
           /\ ref' = Keep("ref", ref,
                          IF ref.key = k
                          THEN [ref EXCEPT !.bytes = Content(w.M, ptr)] ELSE ref)
           /\ pat' = Keep("pat", pat,
                          [pat EXCEPT ![k] =
                              IF pat[k] = Fresh /\ offset = 0 /\ w.ret = Len(data)
                              THEN [known |-> TRUE, p |-> data] ELSE Unknown])
    /\ UNCHANGED <<debug, track, alive, made, bufVars>>

Read(k, offset, len) ==
    /\ alive
    /\ access(Mgr, k) # NullPtr
    /\ LET out == ReadAt(Mgr, access(Mgr, k), offset, len) IN
       last' = Keep("obs", last, Call("read", k, Len(out), <<offset, len>> \o out))
    /\ UNCHANGED <<debug, track, mgrVars, bufVars>>

Destroy ==
    /\ alive
    /\ alive' = FALSE
    /\ LET M == Destructor(Mgr) IN
       /\ Install(M)
       /\ last' = Keep("last", last, Call("destroy", EmptyKey, 0, M.log))
    /\ ref' = NoRef
    /\ pat' = [k \in Keys |-> Unknown]
    /\ made' = {}
    /\ UNCHANGED <<debug, track, bufVars>>

Next ==
    \/ \E k \in Keys, take \in Takes : Create(k, take)
    \/ \E k \in Keys : Remove(k)
    \/ \E k \in Keys, take \in Takes : Access(k, take)
    \/ \E k \in Keys, offset \in 0 .. MaxBufSize, len \in 1 .. MaxBufSize :
           \E data \in Patterns(len) : Write(k, offset, data)
    \/ \E k \in Keys, offset \in 0 .. MaxBufSize, len \in 1 .. MaxBufSize :
           Read(k, offset, len)
    \/ Destroy

Spec == Init /\ [][Next]_vars
SpecNone == InitMgr({}) /\ [][Next]_vars
SpecRef == InitMgr({"ref"}) /\ [][Next]_vars
SpecPat == InitMgr({"pat"}) /\ [][Next]_vars
SpecObs == InitMgr({"obs"}) /\ [][Next]_vars
SpecArgs == InitMgr({"last", "args"}) /\ [][Next]_vars
SpecMade == InitMgr({"made"}) /\ [][Next]_vars
SpecAcc == InitMgr({"last", "acc"}) /\ [][Next]_vars

----------------------------------------------------------------------------
(* A caller of one standalone StaticTransferBuffer<Size>.                  *)

InitBuf(Size, t) ==
    /\ track = t
    /\ debug \in BOOLEAN
    /\ static_buffers = << >>
    /\ dynamic_buffers = << >>
    /\ pool_free = PoolInit
    /\ alive = FALSE
    /\ ref = NoRef
    /\ pat = [k \in Keys |-> Unknown]
    /\ made = {}
    /\ last = Call("init", EmptyKey, 0, << >>)
    /\ buf = StaticTransferBuffer(Size)
    /\ oob = 0
    /\ since = {}
    /\ twin = StaticTransferBuffer(Size)

\* write(offset, data, Len(data)). A copy that runs past data_ runs into
\* max_write_pos_, which the object holds next: what line 202 then reads
\* from it is any value.
BufWrite(offset, data) ==
    LET r == StaticWrite(buf, offset, data, Len(data)) IN
    /\ \E m \in IF r.over > 0 THEN 0 .. UMod - 1 ELSE {r.buf.max_write_pos} :
           buf' = setMaxWritePos(r.buf, m)
    /\ oob' = r.over
    /\ since' = Keep("since", since, since \cup {<<offset, data>>})
    /\ twin' = Keep("twin", twin, StaticWrite(twin, offset, data, Len(data)).buf)
    /\ last' = Call("write", EmptyKey, r.ret, <<offset, Len(data)>>)
    /\ UNCHANGED <<debug, track, mgrVars>>

BufRead(offset, len) ==
    /\ LET out == StaticRead(buf, offset, len) IN
       last' = Call("read", EmptyKey, Len(out), <<offset, len>> \o out)
    /\ UNCHANGED <<debug, track, mgrVars, bufVars>>

BufReset ==
    /\ buf' = StaticReset(buf)
    /\ oob' = 0
    /\ since' = {}
    /\ twin' = Keep("twin", twin, ResetAs(twin, ~debug))
    /\ last' = Call("reset", EmptyKey, 0, << >>)
    /\ UNCHANGED <<debug, track, mgrVars>>

\* the unsigned values near 0 and near the top of the range
Words == (0 .. MaxBufSize + 1) \cup ((UMod - MaxBufSize - 1) .. (UMod - 1))

NextBuf ==
    \/ \E offset \in Words, len \in Words :
           \E data \in Patterns(len) : BufWrite(offset, data)
    \/ \E offset \in Words, len \in Words : BufRead(offset, len)
    \/ BufReset

SpecBuf == InitBuf(MaxBufSize, {}) /\ [][NextBuf]_vars

\* a GapSize-byte buffer written and read GapLen bytes at a time
GapOffsets == {i * GapLen : i \in 0 .. (GapSize \div GapLen)}

NextGap ==
    \/ \E offset \in GapOffsets :
           \E data \in Patterns(GapLen) : BufWrite(offset, data)
    \/ \E offset \in GapOffsets : BufRead(offset, GapLen)
    \/ BufReset

SpecGap == InitBuf(GapSize, {"since"}) /\ [][NextGap]_vars

\* the two builds of the buffer given the same calls, all within its bounds
NextTwin ==
    \/ \E offset \in 0 .. MaxBufSize, len \in 1 .. MaxBufSize :
           \E data \in Patterns(len) : BufWrite(offset, data)
    \/ \E offset \in 0 .. MaxBufSize, len \in 1 .. MaxBufSize : BufRead(offset, len)
    \/ BufReset

SpecTwin == InitBuf(MaxBufSize, {"twin"}) /\ [][NextTwin]_vars

----------------------------------------------------------------------------
(* A caller of one standalone DynamicTransferBufferManagerEntry with cap   *)
(* MaxBufSize, on a pool of which other users hold all but n blocks.       *)

InitDyn(t) ==
    /\ track = t
    /\ debug \in BOOLEAN
    /\ static_buffers = << >>
    /\ \E n \in 1 .. DynPool :
           LET d == DynInstantiate([free |-> 1 .. n, bad |-> 0], MaxBufSize)
               r == DynReset(d.entry, d.free, 1)
           IN  /\ dynamic_buffers = <<r.entry>>
               /\ pool_free = r.free
    /\ alive = FALSE
    /\ ref = NoRef
    /\ pat = [k \in Keys |-> Unknown]
    /\ made = {}
    /\ last = Call("init", EmptyKey, 0, << >>)
    /\ buf = StaticTransferBuffer(MaxBufSize)
    /\ oob = 0
    /\ since = {}
    /\ twin = StaticTransferBuffer(MaxBufSize)

DynBufWrite(offset, data) ==
    /\ LET w == DynWrite(dynamic_buffers[1], pool_free, offset, data, Len(data)) IN
       /\ dynamic_buffers' = <<w.entry>>
       /\ pool_free' = w.free
       /\ last' = Call("write", 1, w.ret, <<offset, Len(data)>>)
    /\ UNCHANGED <<debug, track, static_buffers, alive, ref, pat, made, bufVars>>

DynBufRead(offset, len) ==
    /\ LET out == DynRead(dynamic_buffers[1], offset, len) IN
       last' = Call("read", 1, Len(out), <<offset, len>> \o out)
    /\ UNCHANGED <<debug, track, mgrVars, bufVars>>

DynBufReset ==
    /\ LET r == DynReset(dynamic_buffers[1], pool_free, 1) IN
       /\ dynamic_buffers' = <<r.entry>>
       /\ pool_free' = r.free
    /\ last' = Call("reset", 1, 0, << >>)
    /\ UNCHANGED <<debug, track, static_buffers, alive, ref, pat, made, bufVars>>

NextDyn ==
    \/ \E offset \in 0 .. MaxBufSize + 1, len \in 1 .. MaxBufSize + 1 :
           \E data \in Patterns(len) : DynBufWrite(offset, data)
    \/ \E offset \in 0 .. MaxBufSize + 1, len \in 1 .. MaxBufSize + 1 :
           DynBufRead(offset, len)
    \/ DynBufReset

SpecDyn == InitDyn({}) /\ [][NextDyn]_vars

----------------------------------------------------------------------------
(* The claims about the manager, checked under Spec.                       *)

StaticKeys == {static_buffers[i].key : i \in 1 .. Len(static_buffers)} \ {EmptyKey}

\* how many live entries hold key k
Holders(k) ==
    Cardinality({i \in 1 .. Len(static_buffers) : static_buffers[i].key = k})
    + Cardinality({j \in 1 .. Len(dynamic_buffers) : dynamic_buffers[j].key = k})

\* C1: whatever create and remove calls were made, no two live entries of
\* the static slots and the dynamic list hold the same non-empty key, and no
\* entry of the dynamic list has the empty key.
C1_UniqueKeys ==
    /\ \A k \in Keys : Holders(k) <= 1
    /\ \A j \in 1 .. Len(dynamic_buffers) : dynamic_buffers[j].key # EmptyKey

\* a create whose remove migrated an entry, leaving two dynamic entries
C1_Witness ==
    /\ last.op = "create" /\ last.ret = 1 /\ Len(last.out) = 1
    /\ Len(dynamic_buffers) = 2
    /\ StaticKeys # {}

\* the pool blocks a dynamic entry holds: its object and its chain
BlocksOf(e) == {e.obj} \cup Range(BlockIds(e))

\* C4: when remove(J) frees a static slot while the dynamic list has an
\* entry at its head, with key K, then after the call access(K) is a static
\* entry whose readable length and bytes are those the dynamic entry had,
\* the dynamic list has no entry for K, and every block the dynamic entry
\* held is free in the pool.
C4_MigrationStep ==
    (/\ last'.op = "remove"
     /\ findFirstStatic(static_buffers, last'.key) # NULL
     /\ dynamic_buffers # << >>)
    => LET dyn == Head(dynamic_buffers)
           before == DynRead(dyn, 0, MaxBufSize)
           p == access(Mgr', dyn.key)
       IN  /\ p.tier = "static"
           /\ static_buffers'[p.loc].buf.max_write_pos = Len(before)
           /\ ReadAt(Mgr', p, 0, MaxBufSize) = before
           /\ findFirstDynamic(dynamic_buffers', dyn.key) = NULL
           /\ BlocksOf(dyn) \subseteq pool_free'.free

C4_Migration == [][C4_MigrationStep]_vars

\* a remove has migrated an entry that held bytes, and another
\* dynamic entry stays behind
C4_Witness ==
    /\ last.op = "remove" /\ Len(last.out) = 1
    /\ \E i \in 1 .. Len(static_buffers) :
           /\ static_buffers[i].key = last.out[1]
           /\ static_buffers[i].buf.max_write_pos >= 1
    /\ Len(dynamic_buffers) = 1

\* C5: a create(key) that finds no static slot free and gets no block from
\* the pool returns null and leaves the manager as it was: no entry for key,
\* nothing linked into the dynamic list, every other entry and the pool's
\* free blocks unchanged. For a key that has no entry, that is every create
\* made while no static slot is free and the pool has no free block.
C5_FailedCreateStep ==
    /\ (/\ last'.op = "create"
        /\ access(Mgr, last'.key) = NullPtr
        /\ findFirstStatic(static_buffers, EmptyKey) = NULL
        /\ pool_free.free = {})
       => last'.ret = 0
    /\ (last'.op = "create" /\ last'.ret = 0)
       => /\ UNCHANGED <<static_buffers, dynamic_buffers, pool_free>>
          /\ access(Mgr', last'.key) = NullPtr

C5_Exhaustion == [][C5_FailedCreateStep]_vars

\* a create has failed while the manager holds a static and a dynamic entry
C5_Witness ==
    /\ last.op = "create" /\ last.ret = 0
    /\ StaticKeys # {}
    /\ dynamic_buffers # << >>
    /\ pool_free.free = {}

\* the blocks out of the pool, and those the dynamic list reaches
Outstanding == Blocks \ pool_free.free
Reachable == UNION {BlocksOf(dynamic_buffers[j]) : j \in 1 .. Len(dynamic_buffers)}

RECURSIVE SumHeld(_)
SumHeld(db) == IF db = << >> THEN 0 ELSE 1 + Len(Head(db).blocks) + SumHeld(Tail(db))

\* C6: in every reachable state the blocks out of the pool are exactly the
\* blocks the dynamic list reaches (each entry's object and its chain), each
\* reached once; no block was handed back to the pool twice; and no more are
\* out than the pool has.
C6_PoolAccounting ==
    /\ Outstanding = Reachable
    /\ SumHeld(dynamic_buffers) = Cardinality(Reachable)
    /\ pool_free.bad = 0
    /\ Cardinality(Outstanding) <= PoolBlocks

\* the pool is exhausted by two dynamic entries, one with a chain
C6_Witness ==
    /\ pool_free.free = {}
    /\ Len(dynamic_buffers) = 2
    /\ \E j \in 1 .. 2 : dynamic_buffers[j].blocks # << >>

\* C7: the destructor, run in any reachable state, visits every entry of the
\* dynamic list exactly once and ends with the list empty and every block
\* back in the pool.
C7_TeardownStep ==
    last'.op = "destroy"
    => /\ last'.out = [j \in 1 .. Len(dynamic_buffers) |-> dynamic_buffers[j].obj]
       /\ dynamic_buffers' = << >>
       /\ pool_free' = PoolInit

C7_Teardown == [][C7_TeardownStep]_vars

\* a manager with an occupied static slot and two dynamic entries was destroyed
C7_Witness ==
    /\ ~alive
    /\ last.op = "destroy" /\ Len(last.out) = 2
    /\ StaticKeys # {}

----------------------------------------------------------------------------
(* The claims about a pointer the caller holds, checked under SpecRef.     *)

\* the pointer held refers to a live entry that holds the key it was got
\* for, with the bytes the caller last saw or wrote there
RefValid ==
    /\ Live(Mgr, ref.ptr)
    /\ KeyAt(Mgr, ref.ptr) = ref.key
    /\ Content(Mgr, ref.ptr) = ref.bytes

\* C2 as claimed: a pointer got from create(K) or access(K) refers to the
\* live entry of K and its bytes until the next remove(K) or create(K).
C2_RefStaysValid == ref.key # EmptyKey => RefValid

\* the step moved the entry the pointer refers to from the head of the
\* dynamic list into a static slot that another key held, bytes unchanged
C2_Moved ==
    /\ ref.ptr.tier = "dynamic"
    /\ dynamic_buffers # << >>
    /\ Head(dynamic_buffers).key = ref.key
    /\ \E i \in 1 .. Len(static_buffers) :
           /\ static_buffers[i].key \notin {EmptyKey, ref.key}
           /\ static_buffers'[i].key = ref.key
           /\ StaticRead(static_buffers'[i].buf, 0, MaxBufSize) = ref.bytes

C2_Step ==
    (ref.key # EmptyKey /\ ref' = ref /\ RefValid) => (RefValid' \/ C2_Moved)

\* C2, amended: the pointer stays valid until the next remove(K) or
\* create(K), or until a call on another key, held in a static slot, frees
\* that slot while K's entry is the head of the dynamic list: the call then
\* moves K's bytes into the slot and destroys the entry pointed to. A
\* pointer to a static entry is never invalidated by a call on another key.
C2_RefValidUntilMigrated == [][C2_Step]_vars

\* a pointer to a dynamic entry that holds bytes is still valid with a
\* younger dynamic entry ahead of it in the list
C2_Witness ==
    /\ ref.key # EmptyKey
    /\ ref.ptr.tier = "dynamic"
    /\ RefValid
    /\ ref.bytes # << >>
    /\ Len(dynamic_buffers) = 2
    /\ dynamic_buffers[2].key = ref.key

----------------------------------------------------------------------------
(* The claims about what a key's buffer holds, checked under SpecPat.      *)

\* C3: once create(key) has returned a buffer and a pattern P of L bytes,
\* L <= MaxBufSize, was written to it at offset 0 (the write returned L),
\* access(key) and read(0, out, L) give exactly P, in either tier and
\* whatever calls were made on other keys since.
C3_RoundTrip ==
    \A k \in Keys :
        (pat[k].known /\ pat[k].p # << >>)
        => LET ptr == access(Mgr, k) IN
           /\ ptr # NullPtr
           /\ ReadAt(Mgr, ptr, 0, Len(pat[k].p)) = pat[k].p

\* a pattern of MaxBufSize bytes is held by a dynamic entry
C3_Witness ==
    \E k \in Keys :
        /\ pat[k].known
        /\ Len(pat[k].p) = MaxBufSize
        /\ access(Mgr, k).tier = "dynamic"

\* C10: from a create(key) that succeeded until the first write, the key has
\* exactly one entry and every read of it returns no bytes, whatever the
\* key or the slot held before.
C10_FreshOnCreate ==
    \A k \in Keys :
        pat[k] = Fresh
        => LET ptr == access(Mgr, k) IN
           /\ ptr # NullPtr
           /\ Holders(k) = 1
           /\ \A offset \in 0 .. MaxBufSize + 1, len \in 0 .. MaxBufSize + 1 :
                  ReadAt(Mgr, ptr, offset, len) = << >>

\* a key was created in a static slot that still holds an earlier owner's bytes
C10_Witness ==
    \E k \in Keys :
        /\ pat[k] = Fresh
        /\ access(Mgr, k).tier = "static"
        /\ static_buffers[access(Mgr, k).loc].buf.data # Zeros(MaxBufSize)

----------------------------------------------------------------------------
(* The claims about a standalone static buffer, checked under SpecBuf and  *)
(* SpecGap.                                                                *)

\* C8: write(offset, data, len) on a buffer of capacity C returns
\* min(len, C - offset) when offset < C and 0 otherwise, for every pair of
\* unsigned values, and stores no byte past data_.
C8_WriteClamp ==
    last.op = "write"
    => LET offset == last.out[1]
           len == last.out[2]
           C == Len(buf.data)
       IN  /\ last.ret = IF offset < C THEN Min(len, C - offset) ELSE 0
           /\ oob = 0

\* since its reset the buffer was written GapLen bytes at offset 0 and
\* GapLen bytes at offset 2 * GapLen, and nothing else
GapScenario(p0, p1) == since = {<<0, p0>>, <<2 * GapLen, p1>>}

\* C9 as claimed: after the two writes read(GapLen, out, GapLen) returns no
\* bytes and read(0, out, GapLen) returns the bytes written at offset 0.
C9_GapReadsNothing ==
    \A p0, p1 \in Patterns(GapLen) :
        (GapScenario(p0, p1) /\ last.op = "read")
        => /\ last.out[1] = GapLen => last.ret = 0
           /\ last.out[1] = 0 => SubSeq(last.out, 3, Len(last.out)) = p0

\* C9, amended: after the two writes, in either order, max_write_pos is
\* 3 * GapLen; read(GapLen, out, GapLen) returns GapLen bytes, those data_
\* holds there (zeros after a debug build's reset); read(0, out, GapLen) and
\* read(2 * GapLen, out, GapLen) return the bytes written; a read at
\* 3 * GapLen or beyond returns no bytes.
C9_GapReadsHeldBytes ==
    \A p0, p1 \in Patterns(GapLen) :
        (GapScenario(p0, p1) /\ last.op = "read")
        => LET offset == last.out[1]
               out == SubSeq(last.out, 3, Len(last.out))
           IN  /\ buf.max_write_pos = 3 * GapLen
               /\ last.ret = Len(out)
               /\ offset = 0 => out = p0
               /\ offset = GapLen
                  => /\ last.ret = GapLen
                     /\ out = SubSeq(buf.data, GapLen + 1, 2 * GapLen)
                     /\ debug => out = Zeros(GapLen)
               /\ offset = 2 * GapLen => out = p1
               /\ offset >= 3 * GapLen => last.ret = 0

\* the gap was read after the two writes and GapLen bytes came back
C9_Witness ==
    /\ \E p0, p1 \in Patterns(GapLen) : GapScenario(p0, p1)
    /\ last.op = "read"
    /\ last.out[1] = GapLen
    /\ last.ret = GapLen

----------------------------------------------------------------------------
(* The claims about where create and remove put entries, checked under     *)
(* Spec.                                                                   *)

\* C11: right after create(key), whether it succeeded or not, the key is in
\* a static slot or no static slot is empty: the new entry went to a static
\* slot if one was empty once create's remove(key) and its migration were
\* done, and the pool was asked for a dynamic entry only when none was.
C11_StaticPreferred ==
    last.op = "create"
    => \/ access(Mgr, last.key).tier = "static"
       \/ findFirstStatic(static_buffers, EmptyKey) = NULL

\* a create of a key that held the static slot: its remove migrated a
\* dynamic entry into the slot, and the key itself came back as a dynamic entry
C11_Witness ==
    /\ last.op = "create" /\ last.ret = 1 /\ Len(last.out) = 1
    /\ access(Mgr, last.key).tier = "dynamic"
    /\ access(Mgr, last.out[1]).tier = "static"

----------------------------------------------------------------------------
(* The claims about a standalone dynamic buffer, checked under SpecDyn.    *)

\* the blocks needed to cover [0, pos)
NeededBlocks(pos) == (pos + BlockSize - 1) \div BlockSize

\* what every write leaves in a dynamic buffer e with cap e.max_size: the
\* mark and every stored byte below the cap, and the count returned within
\* what the cap allows
CapKept(e) ==
    /\ e.max_write_pos <= e.max_size
    /\ \A a \in 0 .. Covered(e) - 1 : a >= e.max_size => ChainByte(e, a) = Uninit
    /\ Len(e.blocks) <= NeededBlocks(e.max_size)
    /\ last.op = "write"
       => LET offset == last.out[1]
              len == last.out[2]
          IN  /\ offset >= e.max_size => last.ret = 0
              /\ offset < e.max_size => last.ret <= Min(len, e.max_size - offset)

----------------------------------------------------------------------------
(* The claim about isEmpty(), checked under SpecMade.                      *)

\* C13: while the manager lives, isEmpty() is true exactly when no static
\* slot holds a key and the dynamic list has no entry; and once every key
\* created with success has been removed, isEmpty() is true.
C13_EmptyIffNoEntries ==
    alive
    => /\ isEmpty(Mgr)
          <=> /\ \A i \in 1 .. Len(static_buffers) : static_buffers[i].key = EmptyKey
              /\ dynamic_buffers = << >>
       /\ made = {} => isEmpty(Mgr)

\* every key created has been removed again, one of them after it was
\* written to in the static slot (a release build keeps the bytes in data_)
C13_Witness ==
    /\ alive
    /\ made = {}
    /\ isEmpty(Mgr)
    /\ pool_free = PoolInit
    /\ \E i \in 1 .. Len(static_buffers) :
           static_buffers[i].buf.data # Zeros(MaxBufSize)

----------------------------------------------------------------------------
(* The claim about the mark of a standalone static buffer, checked under   *)
(* SpecBuf.                                                                *)

\* what the claim has one call do to max_write_pos
C14_Step ==
    LET Size == Len(buf.data) IN
    /\ buf'.max_write_pos <= Size
    /\ last'.op = "write"
       => buf'.max_write_pos =
              Max(buf.max_write_pos,
                  IF last'.out[1] < Size
                  THEN Min(last'.out[1] + last'.out[2], Size) ELSE 0)
    /\ last'.op = "read" => buf'.max_write_pos = buf.max_write_pos
    /\ last'.op = "reset" => buf'.max_write_pos = 0

\* C14: max_write_pos is never above Size; reset sets it to 0, and each
\* write(offset, data, len) raises it to min(offset + len, Size) when
\* offset < Size and that is above it, and otherwise leaves it: so between
\* two resets it never decreases and is the maximum of min(offset + len,
\* Size) over the writes made, in whatever order.
C14_HighWater == [][C14_Step]_vars

----------------------------------------------------------------------------
(* More claims about the manager, checked under Spec.                      *)

C16_Step ==
    (/\ last'.op = "remove"
     /\ findFirstStatic(static_buffers, last'.key) = NULL)
    => LET k == last'.key
           held == {j \in 1 .. Len(dynamic_buffers) : dynamic_buffers[j].key = k}
       IN  /\ static_buffers' = static_buffers
           /\ dynamic_buffers' = SelectSeq(dynamic_buffers, LAMBDA e : e.key # k)
           /\ pool_free'.free =
                  pool_free.free \cup UNION {BlocksOf(dynamic_buffers[j]) : j \in held}
           /\ pool_free'.bad = pool_free.bad
           /\ last'.out = << >>
           /\ held = {} => UNCHANGED <<static_buffers, dynamic_buffers, pool_free>>

\* C16: remove(key) of a key held by a dynamic entry unlinks that entry
\* and nothing else: its object and chain go back to the pool, nothing is
\* migrated, and every other entry keeps its place, key, max_write_pos and
\* bytes; remove(key) of a key no entry holds changes nothing.
C16_DynamicRemoveFrame == [][C16_Step]_vars

\* a dynamic entry was removed while the other dynamic entry, which holds
\* bytes, stayed
C16_Witness ==
    /\ last.op = "remove" /\ last.ret = 2
    /\ Len(dynamic_buffers) = 1
    /\ dynamic_buffers[1].max_write_pos >= 1
    /\ StaticKeys # {}

----------------------------------------------------------------------------
(* The claim about access, checked under SpecAcc.                          *)

\* what access(key) returns, for every key and in every state
C17_Found ==
    /\ \A k \in Keys :
           LET p == access(Mgr, k) IN
           /\ p = NullPtr <=> Holders(k) = 0
           /\ p # NullPtr => /\ Live(Mgr, p)
                             /\ KeyAt(Mgr, p) = k
                             /\ Holders(k) = 1
           /\ k \in StaticKeys => p.tier = "static"
    /\ last.op = "remove" => access(Mgr, last.key) = NullPtr
    /\ (last.op = "create" /\ last.ret = 0) => access(Mgr, last.key) = NullPtr
    /\ last.op = "access" => (last.ret = 0 <=> Holders(last.key) = 0)

C17_Step ==
    last'.op = "access" => UNCHANGED <<static_buffers, dynamic_buffers, pool_free>>

\* C17: access(key) returns the one live entry that holds the key, a
\* static one if a static slot holds it, and returns none exactly when no
\* entry holds the key, as right after remove(key) and after a create(key)
\* that failed; and access leaves the static slots, the dynamic list, their
\* contents and the pool as they were.
C17_Access == []C17_Found /\ [][C17_Step]_vars

\* access has returned a dynamic entry that is not the head of the list
C17_Witness ==
    /\ last.op = "access" /\ last.ret = 1
    /\ Len(dynamic_buffers) = 2
    /\ dynamic_buffers[2].key = last.key
    /\ access(Mgr, last.key) = DynPtr(dynamic_buffers[2])

----------------------------------------------------------------------------
(* The claim about the two builds of a static buffer, checked under        *)
(* SpecTwin.                                                               *)

\* C18: given the same writes, resets and reads, the build whose reset()
\* zero-fills data_ and the build whose reset() only sets max_write_pos_ to
\* 0 return the same number of bytes and the same bytes from every read.
C18_BuildsAgree ==
    \A offset \in 0 .. MaxBufSize, len \in 0 .. MaxBufSize :
        StaticRead(buf, offset, len) = StaticRead(twin, offset, len)

----------------------------------------------------------------------------
(* More claims about the manager, checked under Spec.                      *)

\* optimizeStorage() run with one empty static slot of the given size and
\* the dynamic entry e alone in the list
Squeeze(e, Size) ==
    optimizeStorage([sb |-> <<StaticEntry(Size)>>, db |-> <<e>>,
                     free |-> pool_free, log |-> << >>])

\* C19: for every dynamic entry the manager can come to hold, migrateFrom
\* into a static slot of MaxBufSize bytes (an empty one, or any slot of the
\* manager once emptied) returns true, so optimizeStorage never takes its
\* failure branch; and where the branch is taken, as with a slot too small
\* for what the entry holds, the slot is left empty and the entry stays in
\* the list as it was, with nothing returned to the pool.
C19_MigrationNeverFails ==
    \A j \in 1 .. Len(dynamic_buffers) :
        LET e == dynamic_buffers[j]
            held == Len(DynRead(e, 0, MaxBufSize))
        IN  /\ migrateFrom(StaticEntry(MaxBufSize), e).ok
            /\ \A i \in 1 .. Len(static_buffers) : migrateFrom(static_buffers[i], e).ok
            /\ Squeeze(e, MaxBufSize).db = << >>
            /\ held >= 1
               => LET R == Squeeze(e, held - 1) IN
                  /\ ~migrateFrom(StaticEntry(held - 1), e).ok
                  /\ R.sb[1].key = EmptyKey
                  /\ R.sb[1].buf.max_write_pos = 0
                  /\ R.db = <<e>>
                  /\ R.free = pool_free
                  /\ R.log = << >>

\* a dynamic entry holds MaxBufSize bytes, all that a static slot can take
C19_Witness ==
    \E j \in 1 .. Len(dynamic_buffers) :
        /\ dynamic_buffers[j].max_write_pos = MaxBufSize
        /\ Len(DynRead(dynamic_buffers[j], 0, MaxBufSize)) = MaxBufSize
        /\ StaticKeys # {}

C20_Step ==
    (last'.op = "create" /\ access(Mgr, last'.key) # NullPtr)
    => /\ last'.ret = 1
       /\ access(Mgr', last'.key) # NullPtr

\* C20: create(key) of a key that has a live entry, static or dynamic,
\* returns a buffer whatever the pool holds before the call: its remove(key)
\* frees a static slot or a pool block first. So a create that fails was
\* called with a key that had no entry.
C20_RecreateSucceeds == [][C20_Step]_vars

\* the key of the static slot was created again with the pool exhausted:
\* its remove migrated a dynamic entry that held no bytes, and the block of
\* that entry's object became the key's new dynamic entry
C20_Witness ==
    /\ last.op = "create" /\ last.ret = 1 /\ Len(last.out) = 1
    /\ access(Mgr, last.key).tier = "dynamic"
    /\ Len(dynamic_buffers) = 2
    /\ pool_free.free = {}

====
